---- MODULE Spec2Model ----
(***************************************************************************)
(* Model of src/server.js: the Express todo backend.  The state is the     *)
(* Prisma store (users, tasks), the wall clock that jsonwebtoken reads,    *)
(* the tokens handed out so far, and the requests in flight, each at the   *)
(* await of its handler it has reached.  Every await of a handler is an    *)
(* interleaving point: one action is the code run from one await to the    *)
(* next.                                                                   *)
(***************************************************************************)
EXTENDS Integers, Sequences, FiniteSets, TLC

VARIABLES users, tasks, nextUserId, nextTaskId, now, issued, reqs, nfail

vars == <<users, tasks, nextUserId, nextTaskId, now, issued, reqs, nfail>>

(***************************************************************************)
(* Bounds of the model.                                                    *)
(***************************************************************************)
MaxRequests == 2      \* requests that arrive in one behaviour
MaxFailures == 1      \* store or hasher calls that throw in one behaviour
MaxTime == 1          \* the clock runs from week 0 to week MaxTime

\* jwt.sign(..., { expiresIn: '7d' }): the clock counts weeks, 7 days are 1.
ExpiresIn == 1

(***************************************************************************)
(* JavaScript values of a JSON body.  A string is a sequence of            *)
(* characters; t is the typeof tag ("undefined" for an absent key).        *)
(***************************************************************************)
JsUndef == [t |-> "undefined", s |-> <<>>, b |-> FALSE]
JsNull == [t |-> "null", s |-> <<>>, b |-> FALSE]
JsStr(s) == [t |-> "string", s |-> s, b |-> FALSE]
JsBool(b) == [t |-> "boolean", s |-> <<>>, b |-> b]
JsNum(s) == [t |-> "number", s |-> s, b |-> FALSE]

\* !v is FALSE exactly for the truthy values.
Truthy(v) ==
    CASE v.t = "string" -> v.s # <<>>
      [] v.t = "boolean" -> v.b
      [] v.t = "number" -> v.s # <<"0">>
      [] OTHER -> FALSE

\* v !== undefined && v !== null
Given(v) == v.t # "undefined" /\ v.t # "null"

IsSpace(c) == c = " "

RECURSIVE TrimStart(_)
TrimStart(s) ==
    IF s = <<>> THEN <<>>
    ELSE IF IsSpace(Head(s)) THEN TrimStart(Tail(s)) ELSE s

RECURSIVE TrimEnd(_)
TrimEnd(s) ==
    IF s = <<>> THEN <<>>
    ELSE IF IsSpace(s[Len(s)]) THEN TrimEnd(SubSeq(s, 1, Len(s) - 1)) ELSE s

\* String.prototype.trim
Trim(s) == TrimEnd(TrimStart(s))

Digits == <<"0", "1", "2", "3", "4", "5", "6", "7", "8", "9">>

IsDigit(c) == \E i \in 1..Len(Digits) : Digits[i] = c

DigitVal(c) == (CHOOSE i \in 1..Len(Digits) : Digits[i] = c) - 1

RECURSIVE LeadingDigits(_)
LeadingDigits(s) ==
    IF s = <<>> \/ ~IsDigit(Head(s)) THEN <<>>
    ELSE <<Head(s)>> \o LeadingDigits(Tail(s))

RECURSIVE DigitsValue(_, _)
DigitsValue(s, acc) ==
    IF s = <<>> THEN acc ELSE DigitsValue(Tail(s), 10 * acc + DigitVal(Head(s)))

\* parseInt of a string: the value of the leading run of digits after
\* leading white space, NaN when there is none.  NaN is -1 here: no id is
\* negative and the strings of the model carry no sign.
NaN == 0 - 1

ParseInt(s) ==
    LET d == LeadingDigits(TrimStart(s))
    IN  IF d = <<>> THEN NaN ELSE DigitsValue(d, 0)

IsNaN(n) == n = NaN


RECURSIVE NumToStr(_)
\* String(n) for an integer n >= 0
NumToStr(n) ==
    IF n < 10 THEN <<Digits[n + 1]>>
    ELSE NumToStr(n \div 10) \o <<Digits[(n % 10) + 1]>>

\* parseInt(req.userId): the number is converted to its decimal string first
ParseIntOfNumber(n) == ParseInt(NumToStr(n))

(***************************************************************************)
(* Tokens (jsonwebtoken).  sig is "valid" for a token signed with          *)
(* JWT_SECRET, "forged" for any other non-empty string, "empty" for the    *)
(* empty string and "undefined" for no token at all.                       *)
(***************************************************************************)
TokUndefined == [userId |-> 0, iat |-> 0, exp |-> 0, sig |-> "undefined"]
TokEmpty == [userId |-> 0, iat |-> 0, exp |-> 0, sig |-> "empty"]

\* a payload that names the id under another key: { id: userId }
JwtSignIdKey(userId, t) ==
    [userId |-> 0, iat |-> t, exp |-> t + ExpiresIn, sig |-> "valid"]

\* jwt.sign({ userId }, JWT_SECRET, { expiresIn: '7d' }) at time t
JwtSign(userId, t) ==
    [userId |-> userId, iat |-> t, exp |-> t + ExpiresIn, sig |-> "valid"]

\* a verify that checks the signature alone (ignoreExpiration)
JwtVerifyNoExpiry(token, t) == token.sig = "valid"

\* a verify that still accepts the token at the instant it expires
JwtVerifyInclusive(token, t) == token.sig = "valid" /\ t <= token.exp

\* jwt.verify(token, JWT_SECRET, cb) at time t calls cb without an error:
\* the signature is JWT_SECRET's and the clock has not reached exp.
JwtVerifyOk(token, t) == token.sig = "valid" /\ t < token.exp

\* a token an attacker writes without the secret, claiming to be userId
Forged(userId) == [userId |-> userId, iat |-> 0, exp |-> MaxTime + ExpiresIn + 1, sig |-> "forged"]

(***************************************************************************)
(* The Authorization header: absent, or the string                         *)
(*   scheme            when space is FALSE,                                *)
(*   scheme " " cred   when space is TRUE.                                 *)
(***************************************************************************)
NoHeader == [present |-> FALSE, scheme |-> <<>>, space |-> FALSE, cred |-> TokUndefined]
EmptyHeader == [present |-> TRUE, scheme |-> <<>>, space |-> FALSE, cred |-> TokUndefined]
SchemeOnly == [present |-> TRUE, scheme |-> <<"B">>, space |-> FALSE, cred |-> TokUndefined]
Bearer(tok) == [present |-> TRUE, scheme |-> <<"B">>, space |-> TRUE, cred |-> tok]

\* authHeader && authHeader.split(' ')[1]
ExtractToken(h) ==
    IF ~h.present THEN TokUndefined
    ELSE IF h.scheme = <<>> /\ ~h.space THEN TokEmpty
    ELSE IF ~h.space THEN TokUndefined
    ELSE h.cred

\* token == null
TokenIsNull(tok) == tok.sig = "undefined"

(***************************************************************************)
(* bcrypt: the hash carries its salt, compare recomputes the digest with   *)
(* that salt.                                                              *)
(***************************************************************************)
Salts == {"s1", "s2"}

Digest(salt, pw) == <<salt>> \o pw

BcryptHash(pw, salt) == [salt |-> salt, digest |-> Digest(salt, pw)]

\* a compare that hashes the candidate with one fixed salt
BcryptCompareFixedSalt(pw, h) == Digest("s1", pw) = h.digest

BcryptCompare(pw, h) == Digest(h.salt, pw) = h.digest

(***************************************************************************)
(* The Prisma store.  users and tasks are sets of rows; ids come from the  *)
(* autoincrement counters.                                                 *)
(***************************************************************************)
MinId(rows) == CHOOSE r \in rows : \A q \in rows : r.id <= q.id

\* a query result that is one row or null: <<row>> or <<>>
OneOrNull(rows) == IF rows = {} THEN <<>> ELSE <<MinId(rows)>>

\* prisma.user.findFirst({ where: { OR: [{ username }, { email }] } })
UserFindFirst(us, username, email) ==
    OneOrNull({u \in us : u.username = username \/ u.email = email})

\* prisma.user.findUnique({ where: { email } })
UserFindUnique(us, email) == OneOrNull({u \in us : u.email = email})

\* a store with a unique index on email alone
UniqueEmailOnly(us, username, email) == \E u \in us : u.email = email

\* the unique constraints of the user table: create throws P2002 on them
UniqueViolation(us, username, email) ==
    \E u \in us : u.username = username \/ u.email = email

\* the row prisma.user.create({ data: { username, email, passwordHash } }) adds
NewUserRow(id, username, email, passwordHash) ==
    [id |-> id, username |-> username, email |-> email, passwordHash |-> passwordHash]

\* the row prisma.task.create({ data: { title, authorId, isDone: false } }) adds
NewTaskRow(id, title, authorId) ==
    [id |-> id, title |-> title, isDone |-> FALSE, authorId |-> authorId]

\* the where clause without its owner: { id: taskId }
TaskWhereIdOnly(t, taskId, authorId) == t.id = taskId

\* where: { id: taskId, authorId: authorId }
TaskWhere(t, taskId, authorId) == t.id = taskId /\ t.authorId = authorId

\* an update that writes both columns whatever updateData holds
ApplyUpdateBoth(t, data) == [t EXCEPT !.title = data.title, !.isDone = data.isDone]

ApplyUpdate(t, data) ==
    [t EXCEPT !.title = IF data.hasTitle THEN data.title ELSE @,
              !.isDone = IF data.hasIsDone THEN data.isDone ELSE @]

\* prisma.task.updateMany({ where, data }): the table afterwards
TaskUpdateMany(ts, taskId, authorId, data) ==
    {IF TaskWhere(t, taskId, authorId) THEN ApplyUpdate(t, data) ELSE t : t \in ts}

\* prisma.task.deleteMany({ where }): the table afterwards
TaskDeleteMany(ts, taskId, authorId) ==
    {t \in ts : ~TaskWhere(t, taskId, authorId)}

\* the count both return
MatchCount(ts, taskId, authorId) ==
    Cardinality({t \in ts : TaskWhere(t, taskId, authorId)})

\* prisma.task.findUnique({ where: { id: taskId } })
TaskFindUnique(ts, taskId) == OneOrNull({t \in ts : t.id = taskId})

\* orderBy: { id: 'asc' } alone
OrderById(a, b) == a.id < b.id

\* orderBy: [{ isDone: 'asc' }, { id: 'asc' }]  (false sorts before true)
OrderBefore(a, b) ==
    \/ ~a.isDone /\ b.isDone
    \/ a.isDone = b.isDone /\ a.id < b.id

RECURSIVE SortRows(_)
SortRows(rows) ==
    IF rows = {} THEN <<>>
    ELSE LET first == CHOOSE r \in rows : \A q \in rows \ {r} : OrderBefore(r, q)
         IN  <<first>> \o SortRows(rows \ {first})

\* prisma.task.findMany({ where: { authorId }, orderBy })
TaskFindMany(ts, authorId) == SortRows({t \in ts : t.authorId = authorId})

\* a boundary that hands out the stored row as it is, isDone included
MapWithoutRename(task) == task

\* mapPrismaToFlutter: isDone leaves the object, completed enters it
MapPrismaToFlutter(task) ==
    [id |-> task.id, title |-> task.title, authorId |-> task.authorId,
     completed |-> task.isDone]

\* mapPrismaToFlutter on a row-or-null: null stays null
MapOneOrNull(q) == IF q = <<>> THEN <<>> ELSE <<MapPrismaToFlutter(q[1])>>

\* tasks.map(mapPrismaToFlutter)
MapAll(q) == [i \in 1..Len(q) |-> MapPrismaToFlutter(q[i])]

(***************************************************************************)
(* Requests.  reqs is the sequence of the requests received so far, in     *)
(* order of arrival; a request keeps its inputs, its place in its handler  *)
(* (pc), the locals that live across an await, and its response.           *)
(***************************************************************************)
EmptyBody ==
    [username |-> JsUndef, email |-> JsUndef, password |-> JsUndef,
     title |-> JsUndef, completed |-> JsUndef, isDone |-> JsUndef,
     authorId |-> JsUndef]

\* Object.keys(req.body)
BodyKeys(body) == {k \in DOMAIN body : body[k].t # "undefined"}

NoHash == [salt |-> "", digest |-> <<>>]

NoResp ==
    [kind |-> "none", error |-> "", token |-> TokUndefined, user |-> <<>>,
     rows |-> <<>>]

\* res.status(..).json({ error })
ErrorResp(msg) == [NoResp EXCEPT !.kind = "error", !.error = msg]

\* res.status(..).json({ message, token, user: { id, username, email } })
AuthResp(tok, u) ==
    [NoResp EXCEPT !.kind = "auth", !.token = tok,
                   !.user = <<[id |-> u.id, username |-> u.username, email |-> u.email]>>]

\* res.status(200).json(flutterTasks)
TasksResp(rows) == [NoResp EXCEPT !.kind = "tasks", !.rows = rows]

\* res.status(..).json(mapPrismaToFlutter(task)): rows is <<>> for null
TaskResp(rows) == [NoResp EXCEPT !.kind = "task", !.rows = rows]

\* res.status(200).json({ message })
MessageResp == [NoResp EXCEPT !.kind = "message"]

\* a request as it arrives: no identity, no response.  seen is the set of
\* user ids stored when it arrived and at the time it arrived, storeOps
\* counts the store and hasher calls it has made, failed tells that one of
\* them threw.  had is the set of (id, owner) of the tasks stored when it
\* arrived, wrote tells that a store call of the request changed a row.
NewReq(route, hdr, param, body) ==
    [route |-> route, pc |-> "arrived", hdr |-> hdr, param |-> param, body |-> body,
     userId |-> 0, hash |-> NoHash, user |-> <<>>,
     status |-> 0, resp |-> NoResp,
     seen |-> {u.id : u \in users}, at |-> now, storeOps |-> 0, failed |-> FALSE,
     had |-> {<<t.id, t.authorId>> : t \in tasks}, wrote |-> FALSE]

\* the handler returns after res.status(status).json(resp)
Respond(r, status, resp) == [r EXCEPT !.pc = "done", !.status = status, !.resp = resp]

\* the handler suspends at an await
Await(r, pc) == [r EXCEPT !.pc = pc]

\* a store or hasher call is made
Called(r) == [r EXCEPT !.storeOps = @ + 1]

\* a store call of the request returned and left the table as after
Wrote(r, before, after) == [r EXCEPT !.wrote = @ \/ before # after]

(***************************************************************************)
(* authenticateToken: the request after the gate.  Either the gate has     *)
(* answered (pc = "done") or req.userId is set and next() runs the         *)
(* handler (pc = "handler").                                               *)
(***************************************************************************)
\* a gate that decodes the payload and calls next() whatever verify says
AuthenticateDecodeOnly(r, t) ==
    LET token == ExtractToken(r.hdr)
    IN  IF TokenIsNull(token)
        THEN Respond(r, 401, ErrorResp("Unauthorized: Token missing."))
        ELSE [r EXCEPT !.pc = "handler", !.userId = token.userId]

AuthenticateToken(r, t) ==
    LET token == ExtractToken(r.hdr)
    IN  IF TokenIsNull(token)
        THEN Respond(r, 401, ErrorResp("Unauthorized: Token missing."))
        ELSE IF ~JwtVerifyOk(token, t)
        THEN Respond(r, 403, ErrorResp("Forbidden: Invalid or expired token."))
        ELSE [r EXCEPT !.pc = "handler", !.userId = token.userId]

(***************************************************************************)
(* The synchronous start of each handler: from its first line to its       *)
(* first await, or to the response when validation rejects the request.    *)
(* pc = "threw" is a handler that raised outside its try block.            *)
(***************************************************************************)
\* a register handler that checks the body for emptiness and not its fields
RegisterStartNoFieldCheck(r) ==
    IF BodyKeys(r.body) = {}
    THEN Respond(r, 400, ErrorResp("Request body missing or invalid JSON format."))
    ELSE Await(Called(r), "findFirst")

\* app.post('/api/register'), up to the await of findFirst
RegisterStart(r) ==
    IF BodyKeys(r.body) = {}
    THEN Respond(r, 400, ErrorResp("Request body missing or invalid JSON format."))
    ELSE IF ~Truthy(r.body.username) \/ ~Truthy(r.body.email) \/ ~Truthy(r.body.password)
    THEN Respond(r, 400, ErrorResp("Please provide username, email, and password."))
    ELSE Await(Called(r), "findFirst")

\* app.post('/api/login'), up to the await of findUnique
LoginStart(r) ==
    IF BodyKeys(r.body) = {}
    THEN Respond(r, 400, ErrorResp("Request body missing or invalid JSON format."))
    ELSE IF ~Truthy(r.body.email) \/ ~Truthy(r.body.password)
    THEN Respond(r, 400, ErrorResp("Please provide email and password."))
    ELSE Await(Called(r), "findUnique")

\* app.get('/api/tasks'), up to the await of findMany
GetTasksStart(r) == Await(Called(r), "findMany")

\* the title check without its trim: !title alone
PostTaskStartNoTrim(r) ==
    IF ~Truthy(r.body.title)
    THEN Respond(r, 400, ErrorResp("Task title is required."))
    ELSE Await(Called(r), "create")

\* app.post('/api/tasks'), up to the await of create
PostTaskStart(r) ==
    LET title == r.body.title
    IN  IF ~Truthy(title)
        THEN Respond(r, 400, ErrorResp("Task title is required."))
        ELSE IF title.t # "string"
        THEN Await(r, "threw")
        ELSE IF Trim(title.s) = <<>>
        THEN Respond(r, 400, ErrorResp("Task title is required."))
        ELSE Await(Called(r), "create")

\* updateData as the PUT handler builds it from the body
UpdateData(body) ==
    [hasTitle |-> Given(body.title),
     title |-> body.title.s,
     hasIsDone |-> Given(body.completed) \/ Given(body.isDone),
     isDone |-> IF Given(body.completed) THEN body.completed.b ELSE body.isDone.b]

\* Object.keys(updateData).length === 0
NoKeys(data) == ~data.hasTitle /\ ~data.hasIsDone

\* the PUT handler without the check of a blank title
PutTaskStartNoBlank(r) ==
    IF IsNaN(ParseInt(r.param))
    THEN Respond(r, 400, ErrorResp("Invalid task ID."))
    ELSE IF Given(r.body.title) /\ r.body.title.t # "string"
    THEN Await(r, "threw")
    ELSE IF NoKeys(UpdateData(r.body))
    THEN Respond(r, 400, ErrorResp("Must provide title or completed status for update."))
    ELSE Await(Called(r), "updateMany")

\* app.put('/api/tasks/:id'), up to the await of updateMany
PutTaskStart(r) ==
    LET title == r.body.title
    IN  IF IsNaN(ParseInt(r.param))
        THEN Respond(r, 400, ErrorResp("Invalid task ID."))
        ELSE IF Given(title) /\ title.t # "string"
        THEN Await(r, "threw")
        ELSE IF Given(title) /\ Trim(title.s) = <<>>
        THEN Respond(r, 400, ErrorResp("Task title cannot be empty."))
        ELSE IF NoKeys(UpdateData(r.body))
        THEN Respond(r, 400, ErrorResp("Must provide title or completed status for update."))
        ELSE Await(Called(r), "updateMany")

\* app.delete('/api/tasks/:id'), up to the await of deleteMany
DeleteTaskStart(r) ==
    IF IsNaN(ParseInt(r.param))
    THEN Respond(r, 400, ErrorResp("Invalid task ID."))
    ELSE Await(Called(r), "deleteMany")

(***************************************************************************)
(* The inputs the clients send.                                            *)
(***************************************************************************)
RegBody(username, email, password) ==
    [EmptyBody EXCEPT !.username = username, !.email = email, !.password = password]

LoginBody(email, password) ==
    [EmptyBody EXCEPT !.email = email, !.password = password]

RegisterBodies ==
    {EmptyBody,
     RegBody(JsStr(<<"c">>), JsStr(<<"z">>), JsStr(<<"r">>)),
     RegBody(JsStr(<<"c">>), JsStr(<<"w">>), JsStr(<<"p">>)),
     RegBody(JsStr(<<"d">>), JsStr(<<"z">>), JsStr(<<"r">>)),
     RegBody(JsStr(<<"a">>), JsStr(<<"w">>), JsStr(<<"r">>)),
     RegBody(JsStr(<<"d">>), JsStr(<<"x">>), JsStr(<<"r">>)),
     RegBody(JsStr(<<"c">>), JsStr(<<"z">>), JsUndef),
     RegBody(JsStr(<<>>), JsStr(<<"z">>), JsStr(<<"r">>))}

LoginBodies ==
    {EmptyBody,
     LoginBody(JsStr(<<"x">>), JsStr(<<"p">>)),
     LoginBody(JsStr(<<"x">>), JsStr(<<"q">>)),
     LoginBody(JsStr(<<"z">>), JsStr(<<"r">>)),
     LoginBody(JsStr(<<"z">>), JsStr(<<"p">>)),
     LoginBody(JsStr(<<"v">>), JsStr(<<"p">>)),
     LoginBody(JsStr(<<"x">>), JsStr(<<>>)),
     LoginBody(JsUndef, JsStr(<<"p">>))}

\* headers: none, malformed ones, a forged token, and every token handed out
BadHeaders == {NoHeader, EmptyHeader, SchemeOnly, Bearer(TokEmpty), Bearer(Forged(1))}

Headers == BadHeaders \cup {Bearer(tok) : tok \in issued}

\* :id of the URL
Params == {<<"1">>, <<"2", "x">>, <<"x">>}

\* POST /api/tasks bodies: titles absent, null, empty, blank, padded, not a
\* string, and one body that also names an owner and a completion flag
PostBodies ==
    {EmptyBody,
     [EmptyBody EXCEPT !.title = JsNull],
     [EmptyBody EXCEPT !.title = JsStr(<<>>)],
     [EmptyBody EXCEPT !.title = JsStr(<<" ">>)],
     [EmptyBody EXCEPT !.title = JsStr(<<" ", "n">>)],
     [EmptyBody EXCEPT !.title = JsNum(<<"5">>)],
     [EmptyBody EXCEPT !.title = JsStr(<<"n">>), !.authorId = JsNum(<<"2">>),
                       !.completed = JsBool(TRUE), !.isDone = JsBool(TRUE)]}

PutBodies ==
    {[EmptyBody EXCEPT !.authorId = JsNum(<<"2">>)],
     [EmptyBody EXCEPT !.title = JsStr(<<" ">>), !.completed = JsBool(TRUE)],
     [EmptyBody EXCEPT !.title = JsStr(<<"m">>)],
     [EmptyBody EXCEPT !.title = JsStr(<<"m">>), !.completed = JsBool(TRUE),
                       !.authorId = JsNum(<<"2">>)],
     [EmptyBody EXCEPT !.title = JsNum(<<"5">>)],
     [EmptyBody EXCEPT !.title = JsNull, !.completed = JsBool(FALSE)],
     [EmptyBody EXCEPT !.completed = JsBool(TRUE)],
     [EmptyBody EXCEPT !.completed = JsNull, !.isDone = JsBool(TRUE)]}

\* the gate reads the header alone: a request it rejects comes with one
\* param and one body, a request with a token handed out with every one
Sends(hdr, param, body, bodies) ==
    hdr \in BadHeaders => param = <<"1">> /\ body = (CHOOSE b \in bodies : \A c \in bodies : Len(c.title.s) <= Len(b.title.s))

(***************************************************************************)
(* The store the server starts on.  The database outlives the process, so  *)
(* the server starts on whatever rows earlier runs left: none, or the      *)
(* users a and b with their tasks and the tokens they were given.          *)
(***************************************************************************)
UserA == NewUserRow(1, <<"a">>, <<"x">>, BcryptHash(<<"p">>, "s1"))
UserB == NewUserRow(2, <<"b">>, <<"y">>, BcryptHash(<<"q">>, "s2"))

SeedTasks ==
    {NewTaskRow(1, <<"k">>, 1),
     NewTaskRow(2, <<"k">>, 2),
     [NewTaskRow(3, <<"l">>, 1) EXCEPT !.isDone = TRUE],
     NewTaskRow(4, <<"k">>, 1)}

InitEmpty ==
    /\ users = {}
    /\ tasks = {}
    /\ nextUserId = 1
    /\ nextTaskId = 1
    /\ issued = {}

InitSeeded ==
    /\ users = {UserA, UserB}
    /\ tasks = SeedTasks
    /\ nextUserId = 3
    /\ nextTaskId = 5
    /\ issued = {JwtSign(1, 0), JwtSign(2, 0)}

Init ==
    /\ InitEmpty \/ InitSeeded
    /\ now = 0
    /\ reqs = <<>>
    /\ nfail = 0

(***************************************************************************)
(* Arrivals.  Express runs the gate and the handler's synchronous start    *)
(* in one turn of the event loop.                                          *)
(***************************************************************************)
Store == <<users, tasks, nextUserId, nextTaskId>>

\* a request arrives and runs to its first await or to its response
Receive(r) ==
    /\ reqs' = Append(reqs, r)
    /\ UNCHANGED <<Store, now, issued, nfail>>

Register ==
    /\ Len(reqs) < MaxRequests
    /\ \E body \in RegisterBodies :
        Receive(RegisterStart(NewReq("register", NoHeader, <<>>, body)))

Login ==
    /\ Len(reqs) < MaxRequests
    /\ \E body \in LoginBodies :
        Receive(LoginStart(NewReq("login", NoHeader, <<>>, body)))

GetTasks ==
    /\ Len(reqs) < MaxRequests
    /\ \E hdr \in Headers :
        LET g == AuthenticateToken(NewReq("list", hdr, <<>>, EmptyBody), now)
        IN  Receive(IF g.pc = "handler" THEN GetTasksStart(g) ELSE g)

PostTask ==
    /\ Len(reqs) < MaxRequests
    /\ \E hdr \in Headers, body \in PostBodies :
        LET g == AuthenticateToken(NewReq("create", hdr, <<>>, body), now)
        IN  /\ Sends(hdr, <<"1">>, body, PostBodies)
            /\ Receive(IF g.pc = "handler" THEN PostTaskStart(g) ELSE g)

PutTask ==
    /\ Len(reqs) < MaxRequests
    /\ \E hdr \in Headers, param \in Params, body \in PutBodies :
        LET g == AuthenticateToken(NewReq("update", hdr, param, body), now)
        IN  /\ Sends(hdr, param, body, PutBodies)
            /\ Receive(IF g.pc = "handler" THEN PutTaskStart(g) ELSE g)

DeleteTask ==
    /\ Len(reqs) < MaxRequests
    /\ \E hdr \in Headers, param \in Params :
        LET g == AuthenticateToken(NewReq("delete", hdr, param, EmptyBody), now)
        IN  /\ Sends(hdr, param, EmptyBody, {EmptyBody})
            /\ Receive(IF g.pc = "handler" THEN DeleteTaskStart(g) ELSE g)

(***************************************************************************)
(* The steps after an await: the store call takes effect and the handler   *)
(* runs on to its next await or to its response.                           *)
(***************************************************************************)
At(i, route, pc) == reqs[i].route = route /\ reqs[i].pc = pc

Step(i, r) == reqs' = [reqs EXCEPT ![i] = r]

\* findFirst returns: 409 when a user has the username or the email
RegisterFindFirst(i) ==
    /\ At(i, "register", "findFirst")
    /\ LET r == reqs[i]
           existingUser == UserFindFirst(users, r.body.username.s, r.body.email.s)
       IN  Step(i, IF existingUser # <<>>
                   THEN Respond(r, 409, ErrorResp("User with this username or email already exists."))
                   ELSE Await(Called(r), "hash"))
    /\ UNCHANGED <<Store, now, issued, nfail>>

\* bcrypt.hash(password, 10) returns, with a salt of its choice
RegisterHash(i) ==
    /\ At(i, "register", "hash")
    /\ \E salt \in Salts :
           Step(i, Await(Called([reqs[i] EXCEPT !.hash = BcryptHash(reqs[i].body.password.s, salt)]),
                         "create"))
    /\ UNCHANGED <<Store, now, issued, nfail>>

\* prisma.user.create returns or throws P2002; the catch block answers 500
RegisterCreate(i) ==
    /\ At(i, "register", "create")
    /\ LET r == reqs[i]
           newUser == NewUserRow(nextUserId, r.body.username.s, r.body.email.s, r.hash)
           token == JwtSign(newUser.id, now)
       IN  IF UniqueViolation(users, r.body.username.s, r.body.email.s)
           THEN /\ Step(i, Respond(r, 500, ErrorResp("Server error during registration.")))
                /\ UNCHANGED <<users, nextUserId, issued>>
           ELSE /\ users' = users \cup {newUser}
                /\ nextUserId' = nextUserId + 1
                /\ issued' = issued \cup {token}
                /\ Step(i, Respond(Wrote(r, users, users'), 201, AuthResp(token, newUser)))
    /\ UNCHANGED <<tasks, nextTaskId, now, nfail>>

\* a body that tells the client the email is not registered
UnknownEmailTold == ErrorResp("No user with this email.")

\* { error: 'Invalid email or password.' } of the !user branch
UnknownEmailResp == ErrorResp("Invalid email or password.")

\* { error: 'Invalid email or password.' } of the !isValidPassword branch
BadPasswordResp == ErrorResp("Invalid email or password.")

\* findUnique returns: 401 when no user has the email
LoginFindUnique(i) ==
    /\ At(i, "login", "findUnique")
    /\ LET r == reqs[i]
           user == UserFindUnique(users, r.body.email.s)
       IN  Step(i, IF user = <<>>
                   THEN Respond(r, 401, UnknownEmailResp)
                   ELSE Await(Called([r EXCEPT !.user = user]), "compare"))
    /\ UNCHANGED <<Store, now, issued, nfail>>

\* bcrypt.compare returns: 401 when the password does not match
LoginCompare(i) ==
    /\ At(i, "login", "compare")
    /\ LET r == reqs[i]
           user == r.user[1]
           token == JwtSign(user.id, now)
       IN  IF ~BcryptCompare(r.body.password.s, user.passwordHash)
           THEN /\ Step(i, Respond(r, 401, BadPasswordResp))
                /\ UNCHANGED issued
           ELSE /\ issued' = issued \cup {token}
                /\ Step(i, Respond(r, 200, AuthResp(token, user)))
    /\ UNCHANGED <<Store, now, nfail>>

\* findMany returns
GetTasksFindMany(i) ==
    /\ At(i, "list", "findMany")
    /\ LET r == reqs[i]
           authorId == ParseIntOfNumber(r.userId)
       IN  Step(i, Respond(r, 200, TasksResp(MapAll(TaskFindMany(tasks, authorId)))))
    /\ UNCHANGED <<Store, now, issued, nfail>>

\* prisma.task.create returns
PostTaskCreate(i) ==
    /\ At(i, "create", "create")
    /\ LET r == reqs[i]
           authorId == ParseIntOfNumber(r.userId)
           newTask == NewTaskRow(nextTaskId, r.body.title.s, authorId)
       IN  /\ tasks' = tasks \cup {newTask}
           /\ nextTaskId' = nextTaskId + 1
           /\ Step(i, Respond(Wrote(r, tasks, tasks'), 201,
                               TaskResp(<<MapPrismaToFlutter(newTask)>>)))
    /\ UNCHANGED <<users, nextUserId, now, issued, nfail>>

\* updateMany returns its count: 404 when it is 0
PutTaskUpdateMany(i) ==
    /\ At(i, "update", "updateMany")
    /\ LET r == reqs[i]
           authorId == ParseIntOfNumber(r.userId)
           taskId == ParseInt(r.param)
       IN  /\ tasks' = TaskUpdateMany(tasks, taskId, authorId, UpdateData(r.body))
           /\ Step(i, IF MatchCount(tasks, taskId, authorId) = 0
                      THEN Respond(r, 404, ErrorResp("Task not found or unauthorized."))
                      ELSE Await(Called(Wrote(r, tasks, tasks')), "findUnique"))
    /\ UNCHANGED <<users, nextUserId, nextTaskId, now, issued, nfail>>

\* the re-fetch returns
PutTaskFindUnique(i) ==
    /\ At(i, "update", "findUnique")
    /\ LET r == reqs[i]
           task == TaskFindUnique(tasks, ParseInt(r.param))
       IN  Step(i, Respond(r, 200, TaskResp(MapOneOrNull(task))))
    /\ UNCHANGED <<Store, now, issued, nfail>>

\* a delete handler that does not look at the count deleteMany returns
DeleteTaskIgnoresCount(i) ==
    /\ At(i, "delete", "deleteMany")
    /\ LET r == reqs[i]
       IN  /\ tasks' = TaskDeleteMany(tasks, ParseInt(r.param), ParseIntOfNumber(r.userId))
           /\ Step(i, Respond(Wrote(r, tasks, tasks'), 200, MessageResp))
    /\ UNCHANGED <<users, nextUserId, nextTaskId, now, issued, nfail>>

\* deleteMany returns its count: 404 when it is 0
DeleteTaskDeleteMany(i) ==
    /\ At(i, "delete", "deleteMany")
    /\ LET r == reqs[i]
           authorId == ParseIntOfNumber(r.userId)
           taskId == ParseInt(r.param)
       IN  /\ tasks' = TaskDeleteMany(tasks, taskId, authorId)
           /\ Step(i, IF MatchCount(tasks, taskId, authorId) = 0
                      THEN Respond(r, 404, ErrorResp("Task not found or unauthorized."))
                      ELSE Respond(Wrote(r, tasks, tasks'), 200, MessageResp))
    /\ UNCHANGED <<users, nextUserId, nextTaskId, now, issued, nfail>>

\* the catch block of each handler
CatchMessage(route) ==
    CASE route = "register" -> "Server error during registration."
      [] route = "login" -> "Server error during login."
      [] route = "list" -> "Failed to fetch tasks."
      [] route = "create" -> "Failed to create task."
      [] route = "update" -> "Failed to update task."
      [] OTHER -> "Failed to delete task."

AwaitedCalls == {"findFirst", "hash", "create", "findUnique", "compare", "findMany",
                 "updateMany", "deleteMany"}

\* the awaited call throws instead (the store is unreachable, say): the
\* handler's catch block answers 500 and the store is as it was
StoreThrows(i) ==
    /\ reqs[i].pc \in AwaitedCalls
    /\ nfail < MaxFailures
    /\ nfail' = nfail + 1
    /\ Step(i, Respond([reqs[i] EXCEPT !.failed = TRUE], 500,
                       ErrorResp(CatchMessage(reqs[i].route))))
    /\ UNCHANGED <<Store, now, issued>>

\* Express's own answer to an error no handler caught: 500 with an HTML page
DefaultErrorResp == [NoResp EXCEPT !.kind = "html"]

\* what the framework does with a handler that threw
Outcomes == {"lost", "default"}

\* title.trim() threw a TypeError outside the try block and the promise of
\* the async handler is rejected.  Express 4 does not look at the promise a
\* handler returns: nobody answers the request (pc = "lost").  Express 5
\* passes the rejection to its default error handler, which answers 500.
\* The version installed is not fixed by the source.
HandlerRejects(i) ==
    /\ reqs[i].pc = "threw"
    /\ \E outcome \in Outcomes :
           Step(i, IF outcome = "lost"
                   THEN Await(reqs[i], "lost")
                   ELSE Respond(reqs[i], 500, DefaultErrorResp))
    /\ UNCHANGED <<Store, now, issued, nfail>>

\* a week passes
Tick ==
    /\ now < MaxTime
    /\ now' = now + 1
    /\ UNCHANGED <<Store, issued, reqs, nfail>>

Next ==
    \/ Register
    \/ Login
    \/ GetTasks
    \/ PostTask
    \/ PutTask
    \/ DeleteTask
    \/ \E i \in 1..Len(reqs) : RegisterFindFirst(i)
    \/ \E i \in 1..Len(reqs) : RegisterHash(i)
    \/ \E i \in 1..Len(reqs) : RegisterCreate(i)
    \/ \E i \in 1..Len(reqs) : LoginFindUnique(i)
    \/ \E i \in 1..Len(reqs) : LoginCompare(i)
    \/ \E i \in 1..Len(reqs) : GetTasksFindMany(i)
    \/ \E i \in 1..Len(reqs) : PostTaskCreate(i)
    \/ \E i \in 1..Len(reqs) : PutTaskUpdateMany(i)
    \/ \E i \in 1..Len(reqs) : PutTaskFindUnique(i)
    \/ \E i \in 1..Len(reqs) : DeleteTaskDeleteMany(i)
    \/ \E i \in 1..Len(reqs) : StoreThrows(i)
    \/ \E i \in 1..Len(reqs) : HandlerRejects(i)
    \/ Tick

Spec == Init /\ [][Next]_vars

(***************************************************************************)
(* Properties.                                                             *)
(***************************************************************************)
Requests == 1..Len(reqs)

Done(r) == r.pc = "done"

TaskRoutes == {"list", "create", "update", "delete"}

\* the request passed the gate and the handler's validation: it reached a
\* store call
ReachedStore(r) == r.storeOps > 0

\* request i took a step in this transition
Acted(i) == i \in Requests /\ reqs'[i] # reqs[i]

\* the stored task with the id of the request is not owned by the requester
ForeignTask(r) ==
    \E t \in tasks : t.id = ParseInt(r.param) /\ t.authorId # r.userId

\* C1, GET: a 200 list holds only rows of the requester
ListIsOwn(r) ==
    r.route = "list" /\ r.status = 200 =>
        \A k \in 1..Len(r.resp.rows) : r.resp.rows[k].authorId = r.userId

\* C1, PUT and DELETE: on another user's task the conditional call matches
\* nothing and the answer is 404
ForeignIs404(r) ==
    r.route \in {"update", "delete"} /\ Done(r) /\ ReachedStore(r) /\ ~r.failed
        /\ ForeignTask(r) => r.status = 404

\* C1, frame: a task changes or goes only in a step of a request of its owner
OnlyOwnerTouches ==
    \A t \in tasks :
        t \notin tasks' => \E i \in Requests : Acted(i) /\ reqs[i].userId = t.authorId

\* C1: tasks are isolated between users.  A 200 answer to GET /api/tasks
\* holds no task of another user; a PUT or DELETE that reaches the store on
\* the id of another user's task is answered 404 (unless the store call
\* itself throws); and no step of a request changes or removes a task that
\* is not owned by the identity of that request.
C1_Isolation ==
    /\ [](\A i \in Requests : ListIsOwn(reqs[i]) /\ ForeignIs404(reqs[i]))
    /\ [][OnlyOwnerTouches]_vars

\* user 2 asked to update or delete task 1 of user 1, got 404, task 1 is as seeded
C1_Witness ==
    /\ NewTaskRow(1, <<"k">>, 1) \in tasks
    /\ \E i, j \in Requests :
        /\ reqs[i].route = "update" /\ reqs[j].route = "delete"
        /\ \A k \in {i, j} :
            /\ reqs[k].userId = 2
            /\ ParseInt(reqs[k].param) = 1
            /\ reqs[k].status = 404

\* two registrations that name the same username or the same email
SameName(r, q) ==
    \/ r.body.username = q.body.username
    \/ r.body.email = q.body.email

\* the registration ran its store calls and none of them was made to throw
RegisterRan(r) == r.route = "register" /\ Done(r) /\ ReachedStore(r) /\ ~r.failed

\* C2: a registration whose username or email is taken is answered 409,
\* also when the duplicate is found by the store on create: of two
\* registrations with the same username or email neither is answered 500
\* and at most one is answered 201.
C2_DuplicateIsConflict ==
    \A i, j \in Requests :
        i # j /\ RegisterRan(reqs[i]) /\ RegisterRan(reqs[j])
            /\ SameName(reqs[i], reqs[j]) =>
                /\ reqs[i].status \in {201, 409}
                /\ reqs[j].status \in {201, 409}
                /\ ~(reqs[i].status = 201 /\ reqs[j].status = 201)

\* the gate's answer to a request that carries tok at time t
GateOn(tok, t) == AuthenticateToken(NewReq("list", Bearer(tok), <<>>, EmptyBody), t)

IsAuthRoute(r) == r.route \in {"register", "login"}

\* C3: the token of a 201 or 200 answer of register or login, shown to the
\* gate at any time before its expiry, is accepted and sets req.userId to
\* the id of the user in that same answer; so it did for every request that
\* carried it.
C3_TokenIdentity ==
    \A i \in Requests :
        IsAuthRoute(reqs[i]) /\ reqs[i].status \in {200, 201} =>
            LET tok == reqs[i].resp.token
                id == reqs[i].resp.user[1].id
            IN  /\ \A t \in tok.iat..(tok.exp - 1) :
                    GateOn(tok, t).pc = "handler" /\ GateOn(tok, t).userId = id
                /\ \A j \in Requests :
                    reqs[j].hdr = Bearer(tok) /\ reqs[j].at < tok.exp =>
                        reqs[j].userId = id /\ reqs[j].status \notin {401, 403}

\* a user registered, and listed their tasks with the token of the answer
C3_Witness ==
    \E i, j \in Requests :
        /\ reqs[i].route = "register" /\ reqs[i].status = 201
        /\ reqs[j].route = "list" /\ reqs[j].status = 200
        /\ reqs[j].hdr = Bearer(reqs[i].resp.token)
        /\ reqs[j].userId = reqs[i].resp.user[1].id

\* the login ran its lookup and no call of it was made to throw
LoginRan(r) == r.route = "login" /\ Done(r) /\ ReachedStore(r) /\ ~r.failed

\* no stored user has the email of the login
UnknownEmail(r) == \A u \in users : u.email # r.body.email.s

\* a user stored when the login arrived has its email, and another password
WrongPassword(r) ==
    \E u \in users :
        /\ u.id \in r.seen
        /\ u.email = r.body.email.s
        /\ ~BcryptCompare(r.body.password.s, u.passwordHash)

Credentials(r) ==
    {u \in users :
        /\ u.id \in r.seen
        /\ u.email = r.body.email.s
        /\ u.passwordHash.digest = Digest(u.passwordHash.salt, r.body.password.s)}

\* C5: a login that gives the email and the password of a user registered
\* before it arrived is answered 200 with a token of JWT_SECRET for that
\* user's id and with that user's id, whatever happened in between, unless
\* a call of the login itself throws.
C5_LoginSucceeds ==
    \A i \in Requests :
        LoginRan(reqs[i]) =>
            \A u \in Credentials(reqs[i]) :
                /\ reqs[i].status = 200
                /\ reqs[i].resp.user = <<[id |-> u.id, username |-> u.username, email |-> u.email]>>
                /\ reqs[i].resp.token.userId = u.id
                /\ reqs[i].resp.token.sig = "valid"

\* a user registered in this run, then logged in with the same credentials
C5_Witness ==
    \E i, j \in Requests :
        /\ reqs[i].route = "register" /\ reqs[i].status = 201
        /\ LoginRan(reqs[j]) /\ reqs[j].status = 200
        /\ reqs[i].resp.user[1].id \in reqs[j].seen
        /\ reqs[j].body.email = reqs[i].body.email
        /\ reqs[j].body.password = reqs[i].body.password
        /\ reqs[j].resp.user = reqs[i].resp.user

\* the header carries no second part: there is none, or it has no space
NoSecondPart(h) == ~h.present \/ (h.scheme # <<>> /\ ~h.space)

\* the string the gate takes for the token: the second part of the header,
\* or the header itself when it is the empty string
Presented(h) == IF h.space THEN h.cred ELSE TokEmpty

\* the handler ran: it reached a store call, answered, or raised
HandlerRan(r) ==
    r.storeOps > 0 \/ r.pc \in {"threw", "lost"} \/ (Done(r) /\ r.status \notin {401, 403})

GatePassed(r) ==
    LET tok == Presented(r.hdr)
    IN  /\ r.hdr.space
        /\ tok.sig = "valid"
        /\ r.at < tok.exp
        /\ r.userId = tok.userId

Rejected(r) == r.route \in TaskRoutes /\ r.status \in {401, 403}

\* a request the gate rejected takes no further step, and the step in
\* which it arrived left the store as it was
RejectedStops ==
    /\ \A i \in Requests : Rejected(reqs[i]) => reqs'[i] = reqs[i]
    /\ Len(reqs') > Len(reqs) /\ Rejected(reqs'[Len(reqs')]) => UNCHANGED Store

\* C7: on the task routes the handler runs only after the gate verified the
\* token and set req.userId: a request whose handler made a store call,
\* answered or raised has passed the gate; a request answered 401 or 403 by
\* the gate made no store call, carries no identity, never takes another
\* step and left the store unchanged.
C7_GateFirst ==
    /\ [](\A i \in Requests :
            /\ reqs[i].route \in TaskRoutes /\ HandlerRan(reqs[i]) => GatePassed(reqs[i])
            /\ Rejected(reqs[i]) =>
                reqs[i].storeOps = 0 /\ reqs[i].userId = 0 /\ Done(reqs[i]))
    /\ [][RejectedStops]_vars

\* a request with a forged token for user 1 was answered 403 while the tasks
\* are as seeded, and a request with a token of user 1 runs its store call
C7_Witness ==
    /\ tasks = SeedTasks
    /\ \E i, j \in Requests :
        /\ reqs[i].route = "delete" /\ reqs[i].hdr = Bearer(Forged(1))
        /\ reqs[i].status = 403 /\ reqs[i].storeOps = 0
        /\ reqs[j].route = "delete" /\ reqs[j].pc = "deleteMany"
        /\ GatePassed(reqs[j])

\* the rows of the answer are in the order of the contract
Ordered(rows) ==
    \A k, l \in 1..Len(rows) :
        k < l =>
            \/ ~rows[k].completed /\ rows[l].completed
            \/ rows[k].completed = rows[l].completed /\ rows[k].id < rows[l].id

\* the answer to the list request i, given in this step, is the stored
\* tasks of its user
ListAnswer(i) ==
    reqs[i].pc = "findMany" /\ reqs'[i].status = 200 =>
        LET rows == reqs'[i].resp.rows
            own == {t \in tasks : t.authorId = reqs[i].userId}
        IN  /\ reqs'[i].resp.kind = "tasks"
            /\ Len(rows) = Cardinality(own)
            /\ \A t \in own :
                \E k \in 1..Len(rows) :
                    rows[k] = [id |-> t.id, title |-> t.title, authorId |-> t.authorId,
                               completed |-> t.isDone]
            /\ Ordered(rows)

\* C8: the 200 answer to GET /api/tasks of user U is exactly the tasks
\* stored with authorId U when findMany runs, each once, every incomplete
\* task before every completed one and each group by ascending id.
C8_ListSorted == [][\A i \in Requests : ListAnswer(i)]_vars

\* user 1 listed the seeded tasks: 1 and 4 (incomplete), then 3 (completed)
C8_Witness ==
    \E i \in Requests :
        /\ reqs[i].route = "list" /\ reqs[i].status = 200 /\ reqs[i].userId = 1
        /\ Len(reqs[i].resp.rows) = 3
        /\ reqs[i].resp.rows[1].id = 1
        /\ reqs[i].resp.rows[2].id = 4
        /\ reqs[i].resp.rows[3].id = 3
        /\ reqs[i].resp.rows[3].completed

\* the title is a string that is not blank after trimming
TitleGiven(title) == title.t = "string" /\ Trim(title.s) # <<>>

\* the title is absent, null or a string (a JSON title that can be trimmed)
TitleTrimmable(title) == title.t \in {"undefined", "null", "string"}

\* request i of the next state arrived or moved in this step
Moved(i) == i > Len(reqs) \/ reqs'[i] # reqs[i]

\* the row a 201 answer of POST /api/tasks reports, as it is stored
StoredAs(row) ==
    [id |-> row.id, title |-> row.title, isDone |-> row.completed, authorId |-> row.authorId]

\* a step of a create request adds the row it reports when it answers 201
\* and leaves the tasks alone otherwise
CreateEffect ==
    \A i \in 1..Len(reqs') :
        reqs'[i].route = "create" /\ Moved(i) =>
            IF reqs'[i].status = 201
            THEN /\ StoredAs(reqs'[i].resp.rows[1]) \notin tasks
                 /\ \A t \in tasks : t.id # reqs'[i].resp.rows[1].id
                 /\ tasks' = tasks \cup {StoredAs(reqs'[i].resp.rows[1])}
            ELSE tasks' = tasks

\* C9: POST /api/tasks, past the gate, with a title that is absent, null or
\* a string: when the title is a string not blank after trimming the answer
\* is 201 (unless the store call throws) and the task created and reported
\* has that title, completed = false and authorId = req.userId, whatever
\* authorId, completed or isDone the body carries; when the title is absent
\* or blank the answer is 400, no store call is made and no task is created.
C9_Create ==
    /\ [](\A i \in Requests :
            LET r == reqs[i]
            IN  r.route = "create" /\ GatePassed(r) /\ TitleTrimmable(r.body.title) =>
                    IF TitleGiven(r.body.title)
                    THEN /\ r.status \notin {400, 404}
                         /\ Done(r) /\ ~r.failed =>
                             /\ r.status = 201
                             /\ Len(r.resp.rows) = 1
                             /\ r.resp.rows[1].title = r.body.title.s
                             /\ r.resp.rows[1].completed = FALSE
                             /\ r.resp.rows[1].authorId = r.userId
                    ELSE r.status = 400 /\ r.storeOps = 0)
    /\ [][CreateEffect]_vars

\* user 1 posted a title with authorId 2 and completed true in the body:
\* the task created is theirs and not completed
C9_Witness ==
    \E i \in Requests :
        /\ reqs[i].route = "create" /\ reqs[i].status = 201 /\ reqs[i].userId = 1
        /\ reqs[i].body.authorId = JsNum(<<"2">>)
        /\ reqs[i].body.completed = JsBool(TRUE)
        /\ NewTaskRow(5, <<"n">>, 1) \in tasks

\* the body gives neither a title nor a completion value
NoFields(body) == ~Given(body.title) /\ ~Given(body.completed) /\ ~Given(body.isDone)

\* the body gives a title that is blank after trimming
BlankTitle(body) == body.title.t = "string" /\ Trim(body.title.s) = <<>>

\* a request answered 400 was answered in a step that left the store alone
InvalidLeaves ==
    \A i \in 1..Len(reqs') :
        Moved(i) /\ reqs'[i].status = 400 => UNCHANGED Store

\* C10: PUT /api/tasks/:id, past the gate, with neither a title nor a
\* completion value, or with a title blank after trimming (also when a
\* valid completed comes with it), is answered 400 without a store call,
\* and no task changes.
C10_InvalidUpdate ==
    /\ [](\A i \in Requests :
            LET r == reqs[i]
            IN  r.route = "update" /\ GatePassed(r)
                    /\ (NoFields(r.body) \/ BlankTitle(r.body)) =>
                        r.status = 400 /\ r.storeOps = 0 /\ Done(r))
    /\ [][InvalidLeaves]_vars

\* user 1 sent a blank title with completed true for their task 1, and an
\* update without fields: both 400, the tasks are as seeded
C10_Witness ==
    /\ tasks = SeedTasks
    /\ \E i, j \in Requests :
        /\ reqs[i].route = "update" /\ reqs[j].route = "update"
        /\ reqs[i].userId = 1 /\ ParseInt(reqs[i].param) = 1
        /\ BlankTitle(reqs[i].body) /\ reqs[i].body.completed = JsBool(TRUE)
        /\ reqs[i].status = 400
        /\ NoFields(reqs[j].body) /\ reqs[j].userId = 1 /\ reqs[j].status = 400

\* the one row of a 200 answer of PUT is the task of the URL, owned by the
\* requester, with the values the body of the request gave
ShowsTheUpdate(r) ==
    LET data == UpdateData(r.body)
    IN  /\ Len(r.resp.rows) = 1
        /\ r.resp.rows[1].id = ParseInt(r.param)
        /\ r.resp.rows[1].authorId = r.userId
        /\ data.hasTitle => r.resp.rows[1].title = data.title
        /\ data.hasIsDone => r.resp.rows[1].completed = data.isDone

\* C11: every 200 answer of PUT /api/tasks/:id carries the record of the
\* task with that id, owned by the requester and showing the values this
\* update wrote, under every interleaving: the body is never null and never
\* another state of the task.
C11_UpdateAnswer ==
    \A i \in Requests :
        reqs[i].route = "update" /\ reqs[i].status = 200 => ShowsTheUpdate(reqs[i])

\* request r is a DELETE by user uid of task id that arrived while the task
\* was stored and owned by uid
DeletesOwn(r, id, uid) ==
    /\ r.route = "delete" /\ r.userId = uid /\ ParseInt(r.param) = id
    /\ <<id, uid>> \in r.had

\* C12: two DELETE requests of the owner for one task, both arrived while
\* the task was stored, both answered, no store call of either thrown and
\* no third request having deleted the task: one is answered 200, the other
\* 404, and the task is not in the store.
C12_ConcurrentDelete ==
    \A i, j \in Requests :
        \A t \in reqs[i].had :
            /\ i # j
            /\ DeletesOwn(reqs[i], t[1], t[2]) /\ DeletesOwn(reqs[j], t[1], t[2])
            /\ Done(reqs[i]) /\ Done(reqs[j])
            /\ ~reqs[i].failed /\ ~reqs[j].failed
            /\ ~\E k \in Requests \ {i, j} :
                   reqs[k].route = "delete" /\ ParseInt(reqs[k].param) = t[1]
                       /\ reqs[k].status = 200
            => /\ {reqs[i].status, reqs[j].status} = {200, 404}
               /\ ~\E row \in tasks : row.id = t[1]

\* user 1 sent two DELETEs for task 1 while it was stored, the second
\* arriving before the first one's deleteMany ran; both are answered
C12_Witness ==
    \E i, j \in Requests :
        /\ i < j
        /\ DeletesOwn(reqs[i], 1, 1) /\ DeletesOwn(reqs[j], 1, 1)
        /\ Done(reqs[i]) /\ Done(reqs[j])
        /\ reqs[i].status = 404 /\ reqs[j].status = 200

\* the keys of a task in a response: completed, and no isDone
FlutterKeys == {"id", "title", "authorId", "completed"}

\* every task of the response carries the flag as completed
Renamed(rows) == \A k \in 1..Len(rows) : DOMAIN rows[k] = FlutterKeys

\* the PUT names a task, gives a completion value under completed and no
\* title that the handler refuses
SetsCompleted(r) ==
    /\ r.route = "update" /\ GatePassed(r) /\ ~IsNaN(ParseInt(r.param))
    /\ Given(r.body.completed)
    /\ ~Given(r.body.title) \/ TitleGiven(r.body.title)

\* the step in which request i's updateMany matched its task
UpdateMatched(i) ==
    reqs[i].route = "update" /\ reqs[i].pc = "updateMany" /\ reqs'[i].pc = "findUnique"

\* a matched PUT with completed = v leaves the task stored with isDone = v
WritesFlag ==
    \A i \in Requests :
        UpdateMatched(i) /\ SetsCompleted(reqs[i]) =>
            \E t \in tasks' :
                /\ t.id = ParseInt(reqs[i].param) /\ t.authorId = reqs[i].userId
                /\ t.isDone = reqs[i].body.completed.b

\* the stored flag of a task changes only in the matched updateMany of a
\* PUT of its owner that gives a completion value, and becomes that value
FlagKept ==
    \A t \in tasks : \A u \in tasks' :
        t.id = u.id /\ t.isDone # u.isDone =>
            \E i \in Requests :
                /\ UpdateMatched(i)
                /\ ParseInt(reqs[i].param) = t.id /\ reqs[i].userId = t.authorId
                /\ Given(reqs[i].body.completed) \/ Given(reqs[i].body.isDone)
                /\ u.isDone = IF Given(reqs[i].body.completed)
                              THEN reqs[i].body.completed.b ELSE reqs[i].body.isDone.b

\* a list answered in this step reports each task with the flag stored now
ReportsFlag ==
    \A i \in Requests :
        reqs[i].pc = "findMany" /\ reqs'[i].status = 200 =>
            LET rows == reqs'[i].resp.rows
            IN  /\ Renamed(rows)
                /\ \A t \in tasks :
                    t.authorId = reqs[i].userId =>
                        \E k \in 1..Len(rows) :
                            rows[k].id = t.id /\ rows[k].completed = t.isDone

\* C13: the completion flag round-trips across the isDone / completed
\* rename.  A task created is stored and reported with completed = false; a
\* PUT of the owner with completed = v reaches updateMany and stores
\* isDone = v; the stored flag changes in no other step; every GET
\* /api/tasks reports each task with the flag stored when it reads; and
\* every task in a response carries the key completed and not isDone.
C13_CompletedRoundTrip ==
    /\ [](\A i \in Requests :
            LET r == reqs[i]
            IN  /\ r.resp.kind \in {"tasks", "task"} => Renamed(r.resp.rows)
                /\ r.route = "create" /\ r.status = 201 =>
                       Renamed(r.resp.rows) /\ r.resp.rows[1].completed = FALSE
                /\ SetsCompleted(r) => r.storeOps > 0 /\ r.status # 400)
    /\ [][WritesFlag /\ FlagKept /\ ReportsFlag]_vars

\* user 1 set completed = true on their task 1 with a PUT and a later GET
\* /api/tasks of user 1 reports task 1 with completed = true
C13_Witness ==
    \E i, j \in Requests :
        /\ i < j
        /\ SetsCompleted(reqs[i]) /\ reqs[i].status = 200
        /\ reqs[i].userId = 1 /\ ParseInt(reqs[i].param) = 1
        /\ reqs[i].body.completed = JsBool(TRUE)
        /\ reqs[j].route = "list" /\ reqs[j].status = 200 /\ reqs[j].userId = 1
        /\ \E k \in 1..Len(reqs[j].resp.rows) :
               reqs[j].resp.rows[k].id = 1 /\ reqs[j].resp.rows[k].completed

\* a field the handlers take for missing: absent, null or the empty string
Missing(v) == ~Truthy(v)

\* the body is empty or lacks a field the route requires
LacksFields(r) ==
    \/ BodyKeys(r.body) = {}
    \/ r.route = "register" /\ (Missing(r.body.username) \/ Missing(r.body.email) \/ Missing(r.body.password))
    \/ r.route = "login" /\ (Missing(r.body.email) \/ Missing(r.body.password))

\* a request that lacks fields arrives in a step that leaves the store and
\* the tokens handed out alone, and takes no step afterwards
InvalidStops ==
    /\ \A i \in Requests : IsAuthRoute(reqs[i]) /\ LacksFields(reqs[i]) => reqs'[i] = reqs[i]
    /\ Len(reqs') > Len(reqs) /\ IsAuthRoute(reqs'[Len(reqs')]) /\ LacksFields(reqs'[Len(reqs')])
           => UNCHANGED <<Store, issued>>

\* C14: a register or login request with an empty body, or with a missing
\* or empty-string username, email or password, is answered 400 when it
\* arrives, before any store lookup, password hash or user creation: it
\* makes no store or hasher call and takes no further step.
C14_ValidationFirst ==
    /\ [](\A i \in Requests :
            LET r == reqs[i]
            IN  IsAuthRoute(r) /\ LacksFields(r) =>
                    /\ Done(r) /\ r.status = 400 /\ r.resp.kind = "error"
                    /\ r.storeOps = 0 /\ r.hash = NoHash /\ r.user = <<>>
                    /\ ~r.wrote /\ ~r.failed)
    /\ [][InvalidStops]_vars

\* a registration without password, one with an empty username, and a login
\* with an empty password were answered 400 and the store holds no user
C14_Witness ==
    /\ users = {}
    /\ \E i, j \in Requests :
        /\ reqs[i].route = "register" /\ reqs[i].status = 400
        /\ reqs[i].body.password = JsUndef /\ BodyKeys(reqs[i].body) # {}
        /\ reqs[j].route = "login" /\ reqs[j].status = 400
        /\ reqs[j].body.password = JsStr(<<>>) /\ Truthy(reqs[j].body.email)

\* the gate's answer to token tok shown at time t: it runs the handler as
\* the token's user inside the window and answers 403 from expiry on
WindowRule(tok, t) ==
    LET g == GateOn(tok, t)
    IN  IF t < tok.iat + ExpiresIn
        THEN g.pc = "handler" /\ g.userId = tok.userId /\ g.status = 0
        ELSE Done(g) /\ g.status = 403 /\ g.userId = 0

\* a token handed out stays handed out: no step takes one back
NoRevocation == issued \subseteq issued'

\* C15: every token handed out is accepted by the gate at every moment
\* from its issuance until its window of 7 days has passed, whatever
\* logins, registrations and task operations happen in between, and is
\* answered 403 at every moment from then on; so was every request that
\* carried one.
C15_TokenWindow ==
    /\ [](\A tok \in issued :
            /\ tok.iat <= now
            /\ WindowRule(tok, now)
            /\ \A i \in Requests :
                   reqs[i].route \in TaskRoutes /\ reqs[i].hdr = Bearer(tok) =>
                       IF reqs[i].at < tok.iat + ExpiresIn
                       THEN HandlerRan(reqs[i]) /\ reqs[i].userId = tok.userId
                       ELSE reqs[i].status = 403 /\ ~HandlerRan(reqs[i]))
    /\ [][NoRevocation]_vars

\* user 1's token of week 0 was accepted in week 0; in week 1 user 1 logged
\* in again: the gate now answers 403 to the old token and accepts the new
C15_Witness ==
    \E i, j \in Requests :
        /\ reqs[i].route \in TaskRoutes /\ reqs[i].hdr = Bearer(JwtSign(1, 0))
        /\ reqs[i].at = 0 /\ reqs[i].storeOps > 0
        /\ reqs[j].route = "login" /\ reqs[j].status = 200 /\ reqs[j].at = 1
        /\ reqs[j].resp.token = JwtSign(1, 1)
        /\ {JwtSign(1, 0), JwtSign(1, 1)} \subseteq issued
        /\ GateOn(JwtSign(1, 0), now).status = 403
        /\ GateOn(JwtSign(1, 1), now).pc = "handler"

\* C16: in every reachable state no two stored users share a username and
\* no two stored users share an email, concurrent registrations included;
\* and no two share an id.
C16_UniqueUsers ==
    \A u, v \in users :
        u # v => u.username # v.username /\ u.email # v.email /\ u.id # v.id

\* two registrations with the same username were in flight together, both
\* past findFirst; one created the user, the other was refused by the store
C16_Witness ==
    \E i, j \in Requests :
        /\ i # j
        /\ reqs[i].route = "register" /\ reqs[j].route = "register"
        /\ reqs[i].body.username = reqs[j].body.username
        /\ reqs[i].status = 201 /\ reqs[j].status = 500 /\ ~reqs[j].failed
        /\ reqs[j].storeOps = 3
        /\ Cardinality({u \in users : u.username = reqs[i].body.username.s}) = 1

\* the title and the flag the body supplies: completed, or isDone when
\* completed is absent
SuppliesTitle(body) == Given(body.title)

SuppliesFlag(body) == Given(body.completed) \/ Given(body.isDone)

SuppliedFlag(body) == IF Given(body.completed) THEN body.completed.b ELSE body.isDone.b

\* the task t as a matched PUT with this body leaves it
Updated(t, body) ==
    [id |-> t.id,
     authorId |-> t.authorId,
     title |-> IF SuppliesTitle(body) THEN body.title.s ELSE t.title,
     isDone |-> IF SuppliesFlag(body) THEN SuppliedFlag(body) ELSE t.isDone]

\* the step in which the PUT i matched replaces its task by the updated one
\* and leaves every other task, and the users, alone
UpdateFrame ==
    \A i \in Requests :
        UpdateMatched(i) =>
            \E t \in tasks :
                /\ t.id = ParseInt(reqs[i].param) /\ t.authorId = reqs[i].userId
                /\ tasks' = (tasks \ {t}) \cup {Updated(t, reqs[i].body)}
                /\ UNCHANGED <<users, nextUserId, nextTaskId>>

\* no other step of a PUT changes the store
UpdateElseLeaves ==
    \A i \in Requests :
        reqs[i].route = "update" /\ Acted(i) /\ ~UpdateMatched(i) => UNCHANGED Store

\* no step changes the owner of the task stored under an id
IdentityKept ==
    \A t \in tasks : \A u \in tasks' : t.id = u.id => t.authorId = u.authorId

\* C17: a PUT /api/tasks/:id that succeeds changes only the fields the body
\* supplies (title, completion flag) of the one task with that id owned by
\* the requester: a field not supplied keeps its value, id and authorId
\* stay whatever the body carries, every other task is unchanged; and a PUT
\* arriving, or not matching, changes nothing.
C17_UpdateFrame ==
    /\ [][UpdateFrame /\ UpdateElseLeaves /\ IdentityKept]_vars
    /\ [][Len(reqs') > Len(reqs) /\ reqs'[Len(reqs')].route = "update" => UNCHANGED Store]_vars

\* user 1 sent PUT /api/tasks/1 with a title, completed and authorId 2: the
\* task has the new title and flag and is still theirs; user 2 gave the
\* completion flag alone to their task 2, whose title is as seeded
C17_Witness ==
    /\ [id |-> 1, title |-> <<"m">>, authorId |-> 1, isDone |-> TRUE] \in tasks
    /\ [id |-> 2, title |-> <<"k">>, authorId |-> 2, isDone |-> TRUE] \in tasks
    /\ tasks \ {t \in tasks : t.id \in {1, 2}} = SeedTasks \ {t \in SeedTasks : t.id \in {1, 2}}
    /\ \E i, j \in Requests :
        /\ reqs[i].route = "update" /\ reqs[i].status = 200
        /\ reqs[i].body.authorId = JsNum(<<"2">>) /\ SuppliesTitle(reqs[i].body)
        /\ reqs[j].route = "update" /\ reqs[j].status = 200
        /\ ~SuppliesTitle(reqs[j].body) /\ SuppliesFlag(reqs[j].body)

ErrorStatuses == {400, 401, 403, 404, 409, 500}

\* C18: when a store call fails inside a handler the request is answered
\* 500, and no request answered with an error status (400, 401, 403, 404,
\* 409 or 500) has changed a stored row: the users and tasks are as they
\* were before it, also for a PUT whose updateMany succeeded and whose
\* re-fetch failed.
C18_ErrorLeavesStore ==
    \A i \in Requests :
        /\ reqs[i].failed => reqs[i].status = 500
        /\ reqs[i].status \in ErrorStatuses => ~reqs[i].wrote

\* the handler of the request has ended: it answered, or it raised and
\* nobody caught the rejection
Ended(r) == r.pc \in {"done", "lost"}

\* the request has its one response
Answered(r) == Done(r) /\ r.status # 0 /\ r.resp # NoResp

\* C19: every request to the register, login and task routes gets its one
\* response, for every JSON body, a title that is not a string included:
\* no handler ends without having answered, and a request answered takes
\* no further step (it is not answered twice).
C19_OneResponse ==
    /\ [](\A i \in Requests : Ended(reqs[i]) => Answered(reqs[i]))
    /\ [][\A i \in Requests : Answered(reqs[i]) => reqs'[i] = reqs[i]]_vars

====
